---- MODULE Spec2Model ----
(***************************************************************************)
(* Model of the resilient bulk-write client layer of idataapi-transform:   *)
(*   - WriterConfig.py: the lazily created connection pools of             *)
(*     WRedisConfig (get_redis_pool_cli) and WMySQLConfig                  *)
(*     (get_mysql_pool_cli, free_resource);                                *)
(*   - ESConfig.py: MyAsyncTransport (perform_request, main_loop),         *)
(*     AIOHttpConnection.perform_request and MyAsyncElasticsearch          *)
(*     (default_id_hash_func, add_dict_to_es).                             *)
(* SpecConfig exercises the constructors, SpecPool / SpecPoolSeq the pools, *)
(* SpecTransport the transport and SpecBulk the bulk write.                *)
(***************************************************************************)
EXTENDS Integers, Sequences, FiniteSets, TLC

(***************************************************************************)
(* Bounds of the model.                                                    *)
(***************************************************************************)
NumTasks == 2        \* cooperative tasks sharing one sink config
MaxPools == 3        \* pools that may be constructed in one behaviour
MaxCalls == 4        \* calls (pool getter or free_resource) in one behaviour

Tasks == 1..NumTasks
PoolIds == 1..MaxPools

\* Python's None, for the fields that hold a pool, a connection or a cursor.
None == 0

\* A Python value is tagged with its type.
NoneV == [t |-> "none"]
S(x) == [t |-> "str", v |-> x]
I(n) == [t |-> "int", v |-> n]
Obj == [t |-> "obj"]              \* a value json cannot serialise (a datetime, a set)

\* Python truthiness of a tagged value.
Truthy(x) ==
    \/ x.t = "str" /\ x.v # ""
    \/ x.t = "int" /\ x.v # 0
    \/ x.t = "obj"

VARIABLES
    \* ---- WriterConfig.py -------------------------------------------------
    sink,                \* the config under test: "redis", "mysql" or "es"
    init_result,         \* how its __init__ ended: "none" (not called) | "ok" | "ValueError"
    cfg,                 \* the parameters __init__ stored on the config
    redis_pool_cli,      \* WRedisConfig.redis_pool_cli (None or a pool id)
    redis_write_method,  \* WRedisConfig.redis_write_method: the bound method (pool, name)
    mysql_pool_cli,      \* WMySQLConfig.mysql_pool_cli
    connection,          \* WMySQLConfig.connection: None or the pool it was acquired from
    cursor,              \* WMySQLConfig.cursor: None or the pool of its connection
    pools,               \* pool id -> "none" (not constructed) | "open" | "closed"
    pc,                  \* task -> position inside the getter
    mine,                \* task -> the pool object its pending await works on
    ret,                 \* task -> outcome of its last finished call
    calls,               \* calls started so far
    rets,                \* handles returned by the getter since the last release
    created,             \* pools constructed since the last release
    pool_kwargs,         \* pool id -> the keyword arguments it was created with
    ops,                 \* release / close / wait_closed calls made on pools, in order
    nfree                \* calls of free_resource so far

poolVars == <<sink, init_result, cfg, redis_pool_cli, redis_write_method, mysql_pool_cli,
              connection, cursor, pools, pc, mine, ret, calls, rets, created,
              pool_kwargs, ops, nfree>>

\* ---- ESConfig.py (each variable is described where it is initialised) --
VARIABLES
    max_retries, retry_on_timeout, send_get_body_as,
    items, app_code, create_date, id_hash_func, now,
    phase, caller, req, error_if_fail, attempt,
    nAttempts, lastEv, lastExc, allRetry, mark,
    tres, bres, errLogs, items0, sent, ncalls,
    random_min_sleep, random_max_sleep,
    sleeps,              \* the delays slept between the attempts of the current call
    given                \* method, params and body perform_request was called with

esVars == <<max_retries, retry_on_timeout, send_get_body_as,
            items, app_code, create_date, id_hash_func, now,
            phase, caller, req, error_if_fail, attempt,
            nAttempts, lastEv, lastExc, allRetry, mark,
            tres, bres, errLogs, items0, sent, ncalls,
            random_min_sleep, random_max_sleep, sleeps, given>>

\* WESConfig.random_min_sleep / random_max_sleep, stored by the constructor.
sleepBounds == <<random_min_sleep, random_max_sleep>>

vars == <<poolVars, esVars>>

(***************************************************************************)
(* Pools.                                                                  *)
(***************************************************************************)
\* Number of pools constructed so far; ids are handed out in order.
Constructed == Cardinality({p \in PoolIds : pools[p] # "none"})

OpenPools == {p \in PoolIds : pools[p] = "open"}

Returned(h) == [kind |-> "return", handle |-> h]
Raised == [kind |-> "raise", handle |-> None]
NoCall == [kind |-> "none", handle |-> None]

\* No client of the document index is in use.
EsUnused ==
    /\ max_retries = 0
    /\ retry_on_timeout = FALSE
    /\ send_get_body_as = "GET"
    /\ items = <<>>
    /\ app_code = "none"
    /\ create_date = "none"
    /\ id_hash_func = "none"
    /\ random_min_sleep = 0
    /\ random_max_sleep = 0
    /\ now = 0
    /\ phase = "unused"
    /\ caller = "none"
    /\ req = "none"
    /\ given = "none"
    /\ error_if_fail = FALSE
    /\ attempt = 0
    /\ nAttempts = 0
    /\ lastEv = "none"
    /\ lastExc = "none"
    /\ allRetry = FALSE
    /\ mark = "none"
    /\ tres = "none"
    /\ bres = "none"
    /\ errLogs = 0
    /\ items0 = <<>>
    /\ sent = <<>>
    /\ ncalls = 0
    /\ sleeps = <<>>

\* A bound method of a pool object; NoMethod is the field's initial None.
Method(p, name) == [self |-> p, name |-> name]
NoMethod == Method(None, "None")

\* The arguments a constructor is called with that its checks or the pool
\* getters read; configured is main_config.has_<store>_configured, aiomysql
\* whether the import of aiomysql succeeded.
RedisArgs == [configured : BOOLEAN, port : {0, 6379}, key_type : {"LIST", "HASH", "SET"},
              encoding : {"", "utf8"}, direction : {"L", "R", "X"}, compress : BOOLEAN]
MysqlArgs == [configured : BOOLEAN, port : {0, 3306}, encoding : {"", "utf8"},
              aiomysql : BOOLEAN]
EsArgs == [configured : BOOLEAN]

\* Faulty variant of WRedisConfigRaises: key_type is not checked.
WRedisConfigRaises_AnyKeyType(a) ==
    \/ ~a.configured /\ a.port <= 0
    \/ a.encoding = ""

\* The ValueError checks at the head of each __init__.
WRedisConfigRaises(a) ==
    \/ ~a.configured /\ a.port <= 0
    \/ a.key_type \notin {"LIST", "HASH"}
    \/ a.encoding = ""
WMySQLConfigRaises(a) ==
    \/ ~a.configured /\ a.port <= 0
    \/ ~a.aiomysql
WESConfigRaises(a) == ~a.configured

\* The fields __init__ stores (those read later); an empty password becomes
\* None for redis and '' for mysql.
NoCfg == [configured |-> FALSE, port |-> 0, key_type |-> "", direction |-> "",
          compress |-> FALSE, encoding |-> "", db |-> NoneV, password |-> NoneV,
          timeout |-> NoneV]
WRedisConfigFields(a) ==
    [configured |-> a.configured, port |-> a.port, key_type |-> a.key_type,
     direction |-> a.direction, compress |-> a.compress, encoding |-> a.encoding,
     db |-> I(0), password |-> NoneV, timeout |-> I(10)]
WMySQLConfigFields(a) ==
    [NoCfg EXCEPT !.configured = a.configured, !.port = a.port,
                  !.encoding = a.encoding, !.password = S("")]
WESConfigFields(a) == [NoCfg EXCEPT !.configured = a.configured]

NoKwargs == [k \in {} |-> NoneV]

\* Faulty variant of RedisPoolKwargs: the encoding is passed whatever
\* compress says.
RedisPoolKwargs_KeepEncoding(c) ==
    [db |-> c.db, password |-> c.password, encoding |-> S(c.encoding),
     timeout |-> c.timeout, minsize |-> I(1), maxsize |-> I(3)]

\* The keyword arguments of aioredis.create_redis_pool: "encoding" is
\* deleted when compress is set.
RedisPoolKwargs(c) ==
    LET kwargs == [db |-> c.db, password |-> c.password, encoding |-> S(c.encoding),
                   timeout |-> c.timeout, minsize |-> I(1), maxsize |-> I(3)]
    IN  IF c.compress
        THEN [k \in DOMAIN kwargs \ {"encoding"} |-> kwargs[k]]
        ELSE kwargs

\* The size and charset arguments of aiomysql.create_pool.
MysqlPoolKwargs(c) == [minsize |-> I(1), maxsize |-> I(3), charset |-> S(c.encoding)]

\* Faulty variant of WriteMethod: a LIST key is always pushed on the left.
WriteMethod_AlwaysLeft(c, p) ==
    IF c.key_type = "LIST" THEN Method(p, "lpush") ELSE Method(p, "hset")

\* The method of the pool that get_redis_pool_cli binds to redis_write_method.
WriteMethod(c, p) ==
    IF c.key_type = "LIST"
    THEN IF c.direction = "L" THEN Method(p, "lpush") ELSE Method(p, "rpush")
    ELSE Method(p, "hset")

\* A call on a pool object: release(conn), close() or wait_closed().
PoolOp(op, p, conn) == [op |-> op, pool |-> p, conn |-> conn]

\* WRedisConfig.__init__ / WMySQLConfig.__init__ have returned for a store
\* that is configured: every cached field starts None.
InitPool ==
    /\ sink \in {"redis", "mysql"}
    /\ init_result = "ok"
    /\ IF sink = "redis"
       THEN \E a \in RedisArgs :
                /\ a.configured /\ a.port > 0
                /\ ~WRedisConfigRaises(a)
                /\ cfg = WRedisConfigFields(a)
       ELSE \E a \in MysqlArgs :
                /\ a.configured /\ a.port > 0 /\ a.encoding # ""
                /\ ~WMySQLConfigRaises(a)
                /\ cfg = WMySQLConfigFields(a)
    /\ pool_kwargs = [p \in PoolIds |-> NoKwargs]
    /\ ops = <<>>
    /\ nfree = 0
    /\ redis_pool_cli = None
    /\ redis_write_method = NoMethod
    /\ mysql_pool_cli = None
    /\ connection = None
    /\ cursor = None
    /\ pools = [p \in PoolIds |-> "none"]
    /\ pc = [t \in Tasks |-> "idle"]
    /\ mine = [t \in Tasks |-> None]
    /\ ret = [t \in Tasks |-> NoCall]
    /\ calls = 0
    /\ rets = <<>>
    /\ created = 0
    /\ EsUnused

\* get_redis_pool_cli up to its await: a cached pool is returned at once,
\* otherwise the task suspends in aioredis.create_redis_pool.
GetRedisCall(t) ==
    /\ sink = "redis"
    /\ pc[t] = "idle"
    /\ calls < MaxCalls
    /\ calls' = calls + 1
    /\ IF redis_pool_cli = None
       THEN /\ pc' = [pc EXCEPT ![t] = "create"]
            /\ ret' = [ret EXCEPT ![t] = NoCall]
            /\ rets' = rets
       ELSE /\ pc' = pc
            /\ ret' = [ret EXCEPT ![t] = Returned(redis_pool_cli)]
            /\ rets' = Append(rets, redis_pool_cli)
    /\ UNCHANGED <<sink, redis_pool_cli, redis_write_method, mysql_pool_cli,
                   connection, cursor, pools, mine, created>>
    /\ UNCHANGED <<init_result, cfg, pool_kwargs, ops, nfree>>
    /\ UNCHANGED esVars

\* create_redis_pool completes: the pool is stored, the write method bound to
\* it, and the field (re-read) is returned.
RedisCreateDone(t) ==
    /\ sink = "redis"
    /\ pc[t] = "create"
    /\ Constructed < MaxPools
    /\ LET p == Constructed + 1 IN
        /\ pools' = [pools EXCEPT ![p] = "open"]
        /\ pool_kwargs' = [pool_kwargs EXCEPT ![p] = RedisPoolKwargs(cfg)]
        /\ redis_pool_cli' = p
        /\ redis_write_method' = WriteMethod(cfg, p)
        /\ mine' = [mine EXCEPT ![t] = p]
        /\ ret' = [ret EXCEPT ![t] = Returned(p)]
        /\ rets' = Append(rets, p)
    /\ created' = created + 1
    /\ pc' = [pc EXCEPT ![t] = "idle"]
    /\ UNCHANGED <<sink, mysql_pool_cli, connection, cursor, calls>>
    /\ UNCHANGED <<init_result, cfg, ops, nfree>>
    /\ UNCHANGED esVars

\* create_redis_pool raises (server unreachable): nothing is stored.
RedisCreateFail(t) ==
    /\ sink = "redis"
    /\ pc[t] = "create"
    /\ pc' = [pc EXCEPT ![t] = "idle"]
    /\ ret' = [ret EXCEPT ![t] = Raised]
    /\ UNCHANGED <<sink, redis_pool_cli, redis_write_method, mysql_pool_cli,
                   connection, cursor, pools, mine, calls, rets, created>>
    /\ UNCHANGED <<init_result, cfg, pool_kwargs, ops, nfree>>
    /\ UNCHANGED esVars

\* Faulty variant of GetMysqlCall: the cached pool is ignored and every call
\* goes on to construct one.
GetMysqlCall_NoCache(t) ==
    /\ sink = "mysql"
    /\ pc[t] = "idle"
    /\ calls < MaxCalls
    /\ calls' = calls + 1
    /\ pc' = [pc EXCEPT ![t] = "create"]
    /\ ret' = [ret EXCEPT ![t] = NoCall]
    /\ UNCHANGED <<sink, redis_pool_cli, redis_write_method, mysql_pool_cli,
                   connection, cursor, pools, mine, rets, created>>
    /\ UNCHANGED <<init_result, cfg, pool_kwargs, ops, nfree>>
    /\ UNCHANGED esVars

\* get_mysql_pool_cli up to its first await.
GetMysqlCall(t) ==
    /\ sink = "mysql"
    /\ pc[t] = "idle"
    /\ calls < MaxCalls
    /\ calls' = calls + 1
    /\ IF mysql_pool_cli = None
       THEN /\ pc' = [pc EXCEPT ![t] = "create"]
            /\ ret' = [ret EXCEPT ![t] = NoCall]
            /\ rets' = rets
       ELSE /\ pc' = pc
            /\ ret' = [ret EXCEPT ![t] = Returned(mysql_pool_cli)]
            /\ rets' = Append(rets, mysql_pool_cli)
    /\ UNCHANGED <<sink, redis_pool_cli, redis_write_method, mysql_pool_cli,
                   connection, cursor, pools, mine, created>>
    /\ UNCHANGED <<init_result, cfg, pool_kwargs, ops, nfree>>
    /\ UNCHANGED esVars

\* aiomysql.create_pool completes: the pool is stored and acquire() is
\* started on the pool just stored.
MysqlCreateDone(t) ==
    /\ sink = "mysql"
    /\ pc[t] = "create"
    /\ Constructed < MaxPools
    /\ LET p == Constructed + 1 IN
        /\ pools' = [pools EXCEPT ![p] = "open"]
        /\ pool_kwargs' = [pool_kwargs EXCEPT ![p] = MysqlPoolKwargs(cfg)]
        /\ mysql_pool_cli' = p
        /\ mine' = [mine EXCEPT ![t] = p]
    /\ created' = created + 1
    /\ pc' = [pc EXCEPT ![t] = "acquire"]
    /\ UNCHANGED <<sink, redis_pool_cli, redis_write_method, connection, cursor,
                   ret, calls, rets>>
    /\ UNCHANGED <<init_result, cfg, ops, nfree>>
    /\ UNCHANGED esVars

\* acquire() completes: the connection is stored and cursor() is started on it.
MysqlAcquireDone(t) ==
    /\ sink = "mysql"
    /\ pc[t] = "acquire"
    /\ connection' = mine[t]
    /\ pc' = [pc EXCEPT ![t] = "cursor"]
    /\ UNCHANGED <<sink, redis_pool_cli, redis_write_method, mysql_pool_cli, cursor,
                   pools, mine, ret, calls, rets, created>>
    /\ UNCHANGED <<init_result, cfg, pool_kwargs, ops, nfree>>
    /\ UNCHANGED esVars

\* cursor() completes: the cursor is stored and the pool field, as it is now,
\* is returned.
MysqlCursorDone(t) ==
    /\ sink = "mysql"
    /\ pc[t] = "cursor"
    /\ cursor' = mine[t]
    /\ pc' = [pc EXCEPT ![t] = "idle"]
    /\ ret' = [ret EXCEPT ![t] = Returned(mysql_pool_cli)]
    /\ rets' = Append(rets, mysql_pool_cli)
    /\ UNCHANGED <<sink, redis_pool_cli, redis_write_method, mysql_pool_cli,
                   connection, pools, mine, calls, created>>
    /\ UNCHANGED <<init_result, cfg, pool_kwargs, ops, nfree>>
    /\ UNCHANGED esVars

\* One of the three awaits of get_mysql_pool_cli raises; what was stored
\* before it stays stored.
MysqlAwaitFail(t) ==
    /\ sink = "mysql"
    /\ pc[t] \in {"create", "acquire", "cursor"}
    /\ pc' = [pc EXCEPT ![t] = "idle"]
    /\ ret' = [ret EXCEPT ![t] = Raised]
    /\ UNCHANGED <<sink, redis_pool_cli, redis_write_method, mysql_pool_cli,
                   connection, cursor, pools, mine, calls, rets, created>>
    /\ UNCHANGED <<init_result, cfg, pool_kwargs, ops, nfree>>
    /\ UNCHANGED esVars

\* Faulty variant of FreeResource: the pool is closed before the connection
\* is released to it.
FreeResource_CloseFirst ==
    /\ sink = "mysql"
    /\ calls < MaxCalls
    /\ calls' = calls + 1
    /\ nfree' = nfree + 1
    /\ IF mysql_pool_cli # None
       THEN /\ ops' = ops \o <<PoolOp("close", mysql_pool_cli, None),
                                PoolOp("release", mysql_pool_cli, connection),
                                PoolOp("wait_closed", mysql_pool_cli, None)>>
            /\ pools' = [pools EXCEPT ![mysql_pool_cli] = "closed"]
            /\ mysql_pool_cli' = None
            /\ connection' = None
            /\ cursor' = None
            /\ rets' = <<>>
            /\ created' = 0
       ELSE UNCHANGED <<ops, pools, mysql_pool_cli, connection, cursor, rets, created>>
    /\ UNCHANGED <<sink, redis_pool_cli, redis_write_method, pc, mine, ret>>
    /\ UNCHANGED <<init_result, cfg, pool_kwargs>>
    /\ UNCHANGED esVars

\* free_resource: synchronous; releases the connection, closes the pool,
\* schedules wait_closed() and resets the three fields, or does nothing on an
\* uninitialized config.
FreeResource ==
    /\ sink = "mysql"
    /\ calls < MaxCalls
    /\ calls' = calls + 1
    /\ nfree' = nfree + 1
    /\ IF mysql_pool_cli # None
       THEN /\ ops' = ops \o <<PoolOp("release", mysql_pool_cli, connection),
                                PoolOp("close", mysql_pool_cli, None),
                                PoolOp("wait_closed", mysql_pool_cli, None)>>
            /\ pools' = [pools EXCEPT ![mysql_pool_cli] = "closed"]
            /\ mysql_pool_cli' = None
            /\ connection' = None
            /\ cursor' = None
            /\ rets' = <<>>
            /\ created' = 0
       ELSE UNCHANGED <<ops, pools, mysql_pool_cli, connection, cursor, rets, created>>
    /\ UNCHANGED <<sink, redis_pool_cli, redis_write_method, pc, mine, ret>>
    /\ UNCHANGED <<init_result, cfg, pool_kwargs>>
    /\ UNCHANGED esVars

\* The pool fields, the tasks and the bookkeeping, which no constructor step
\* changes.
poolState == <<redis_pool_cli, redis_write_method, mysql_pool_cli, connection, cursor,
               pools, pc, mine, ret, calls, rets, created, pool_kwargs, ops, nfree>>

\* WRedisConfig(...): the checks raise ValueError, or the fields are stored.
WRedisConfigInit ==
    /\ init_result = "none"
    /\ \E a \in RedisArgs :
        IF WRedisConfigRaises(a)
        THEN init_result' = "ValueError" /\ UNCHANGED <<sink, cfg>>
        ELSE init_result' = "ok" /\ sink' = "redis" /\ cfg' = WRedisConfigFields(a)
    /\ UNCHANGED poolState
    /\ UNCHANGED esVars

\* WMySQLConfig(...).
WMySQLConfigInit ==
    /\ init_result = "none"
    /\ \E a \in MysqlArgs :
        IF WMySQLConfigRaises(a)
        THEN init_result' = "ValueError" /\ UNCHANGED <<sink, cfg>>
        ELSE init_result' = "ok" /\ sink' = "mysql" /\ cfg' = WMySQLConfigFields(a)
    /\ UNCHANGED poolState
    /\ UNCHANGED esVars

\* WESConfig(...).
WESConfigInit ==
    /\ init_result = "none"
    /\ \E a \in EsArgs :
        IF WESConfigRaises(a)
        THEN init_result' = "ValueError" /\ UNCHANGED <<sink, cfg>>
        ELSE init_result' = "ok" /\ sink' = "es" /\ cfg' = WESConfigFields(a)
    /\ UNCHANGED poolState
    /\ UNCHANGED esVars

TaskStep(t) ==
    \/ GetRedisCall(t)
    \/ RedisCreateDone(t)
    \/ RedisCreateFail(t)
    \/ GetMysqlCall(t)
    \/ MysqlCreateDone(t)
    \/ MysqlAcquireDone(t)
    \/ MysqlCursorDone(t)
    \/ MysqlAwaitFail(t)

\* Any interleaving of the tasks at their await points.
NextPool ==
    \/ \E t \in Tasks : TaskStep(t)
    \/ FreeResource

\* Calls that each run to completion before the next one starts.
NoCallInProgress == \A t \in Tasks : pc[t] = "idle"
OnlyRunning(t) == \A u \in Tasks \ {t} : pc[u] = "idle"

NextPoolSeq ==
    \/ \E t \in Tasks : OnlyRunning(t) /\ GetRedisCall(t)
    \/ \E t \in Tasks : OnlyRunning(t) /\ RedisCreateDone(t)
    \/ \E t \in Tasks : OnlyRunning(t) /\ RedisCreateFail(t)
    \/ \E t \in Tasks : OnlyRunning(t) /\ GetMysqlCall(t)
    \/ \E t \in Tasks : OnlyRunning(t) /\ MysqlCreateDone(t)
    \/ \E t \in Tasks : OnlyRunning(t) /\ MysqlAcquireDone(t)
    \/ \E t \in Tasks : OnlyRunning(t) /\ MysqlCursorDone(t)
    \/ \E t \in Tasks : OnlyRunning(t) /\ MysqlAwaitFail(t)
    \/ NoCallInProgress /\ FreeResource

SpecPool == InitPool /\ [][NextPool]_vars
SpecPoolSeq == InitPool /\ [][NextPoolSeq]_vars

(***************************************************************************)
(* Records and their identifiers (ESConfig.py).                            *)
(* A record is a dict in insertion order: a sequence of [k, v] entries with *)
(* distinct keys.                                                          *)
(***************************************************************************)
MaxBatch == 2        \* records in one batch
MaxEsCalls == 2      \* calls of the client in one behaviour
MaxRetries == 3      \* largest max_retries a transport is built with
MaxRespItems == 2    \* per-item results in one bulk response

E(k, v) == [k |-> k, v |-> v]
Has(d, k) == \E i \in 1..Len(d) : d[i].k = k
Idx(d, k) == CHOOSE i \in 1..Len(d) : d[i].k = k
Get(d, k) == d[Idx(d, k)].v
\* d[k] = v: in place for a key already there, appended otherwise.
Put(d, k, v) ==
    IF Has(d, k) THEN [d EXCEPT ![Idx(d, k)] = E(k, v)] ELSE Append(d, E(k, v))

\* str(item): the dict's repr, which spells out every key and value in order.
Str(d) == [repr |-> d]
\* hashlib.md5(value).hexdigest(), taken as collision free on the values met.
Md5(value) == [t |-> "hex", md5 |-> value]
\* json.dumps raises TypeError on a value it cannot serialise.
Serializable(d) == \A i \in 1..Len(d) : d[i].v.t # "obj"
Dumps(d) == [json |-> d]

\* Outcome of an identifier function: the id, the record as the call left it,
\* or an exception.
IdOk(id, d) == [raised |-> FALSE, id |-> id, item |-> d]
IdRaised(d) == [raised |-> TRUE, id |-> NoneV, item |-> d]

\* Faulty variant of default_id_hash_func: createDate is never injected.
default_id_hash_func_NoStamp(item, time) ==
    LET composite == /\ Has(item, "appCode") /\ Truthy(Get(item, "appCode"))
                     /\ Has(item, "id") /\ Truthy(Get(item, "id"))
    IN  IF composite
        THEN IF Get(item, "appCode").t = "str" /\ Get(item, "id").t = "str"
             THEN IdOk(Md5([text |-> Get(item, "appCode").v \o "_" \o Get(item, "id").v]),
                       item)
             ELSE IdRaised(item)
        ELSE IdOk(Md5(Str(item)), item)

\* default_id_hash_func: appCode + "_" + id is a str concatenation, a
\* TypeError unless both are str; createDate is injected after the value to
\* hash has been taken.
default_id_hash_func(item, time) ==
    LET composite == /\ Has(item, "appCode") /\ Truthy(Get(item, "appCode"))
                     /\ Has(item, "id") /\ Truthy(Get(item, "id"))
        stamped == IF Has(item, "createDate") THEN item
                   ELSE Put(item, "createDate", I(time))
    IN  IF composite
        THEN IF Get(item, "appCode").t = "str" /\ Get(item, "id").t = "str"
             THEN IdOk(Md5([text |-> Get(item, "appCode").v \o "_" \o Get(item, "id").v]),
                       stamped)
             ELSE IdRaised(item)
        ELSE IdOk(Md5(Str(item)), stamped)

\* A caller-supplied id_hash_func, here lambda item: item["id"]: a KeyError
\* on a record without id, and no side effect.
by_id_hash_func(item) ==
    IF Has(item, "id") THEN IdOk(Get(item, "id"), item) ELSE IdRaised(item)

IdHash(f, item, time) ==
    IF f = "default" THEN default_id_hash_func(item, time) ELSE by_id_hash_func(item)

\* The action descriptor of one record, as json.dumps writes it.
ActionLine(actions, id) ==
    [json |-> [kind |-> actions, index |-> "idx", type |-> "doc", id |-> id]]

\* Faulty variant of BuildBody: the record's line is written before its
\* action descriptor.
RECURSIVE BuildBody_RecordFirst(_, _, _, _, _, _, _, _, _)
BuildBody_RecordFirst(its, i, body, ids, f, code, date, actions, time) ==
    IF i > Len(its)
    THEN [raised |-> FALSE, items |-> its, body |-> body, ids |-> ids]
    ELSE LET s1 == IF Truthy(code) THEN Put(its[i], "appCode", code) ELSE its[i]
             s2 == IF Truthy(date) THEN Put(s1, "createDate", date) ELSE s1
             h == IdHash(f, s2, time)
             its2 == [its EXCEPT ![i] = h.item]
         IN  IF h.raised \/ h.id.t = "obj" \/ ~Serializable(h.item)
             THEN [raised |-> TRUE, items |-> its2, body |-> body, ids |-> ids]
             ELSE BuildBody_RecordFirst(its2, i + 1,
                            body \o <<Dumps(h.item), ActionLine(actions, h.id)>>,
                            Append(ids, h.id), f, code, date, actions, time)

\* The for loop of add_dict_to_es from record i on: stamp, compute the
\* identifier, append the two lines.  An exception leaves the loop with the
\* records changed so far.
RECURSIVE BuildBody(_, _, _, _, _, _, _, _, _)
BuildBody(its, i, body, ids, f, code, date, actions, time) ==
    IF i > Len(its)
    THEN [raised |-> FALSE, items |-> its, body |-> body, ids |-> ids]
    ELSE LET s1 == IF Truthy(code) THEN Put(its[i], "appCode", code) ELSE its[i]
             s2 == IF Truthy(date) THEN Put(s1, "createDate", date) ELSE s1
             h == IdHash(f, s2, time)
             its2 == [its EXCEPT ![i] = h.item]
         IN  IF h.raised \/ h.id.t = "obj" \/ ~Serializable(h.item)
             THEN [raised |-> TRUE, items |-> its2, body |-> body, ids |-> ids]
             ELSE BuildBody(its2, i + 1,
                            body \o <<ActionLine(actions, h.id), Dumps(h.item)>>,
                            Append(ids, h.id), f, code, date, actions, time)

(***************************************************************************)
(* The transport (MyAsyncTransport, AIOHttpConnection).                    *)
(***************************************************************************)
\* What one HTTP exchange can come to: the TLS fingerprint check fails, the
\* timeout fires, any other client error, or the server answers a status.
NetEvents == {"fingerprint", "timeout", "neterr"}
Statuses == {200, 400, 401, 404, 500, 503}
Events == [t : {"net"}, v : NetEvents] \cup [t : {"http"}, v : Statuses]
NoEvent == [t |-> "none", v |-> ""]

\* Transport.retry_on_status as the client library sets it.
retry_on_status == {502, 503, 504}

Exc(cls, code) == [raised |-> TRUE, cls |-> cls, status_code |-> code]
NoExc == [raised |-> FALSE, cls |-> "", status_code |-> 0]

\* AIOHttpConnection.perform_request: exceptions of the exchange become
\* SSLError / ConnectionTimeout / ConnectionError (status_code is then the
\* text 'N/A' or 'TIMEOUT', written 0 here); a status outside 2xx that is not
\* ignored raises the TransportError of that status; anything else returns.
ConnPerformRequest(ev, ignore) ==
    IF ev.t = "net"
    THEN CASE ev.v = "fingerprint" -> Exc("SSLError", 0)
           [] ev.v = "timeout" -> Exc("ConnectionTimeout", 0)
           [] OTHER -> Exc("ConnectionError", 0)
    ELSE IF ~(200 <= ev.v /\ ev.v < 300) /\ ev.v \notin ignore
         THEN Exc(CASE ev.v = 400 -> "RequestError"
                    [] ev.v = 401 -> "AuthenticationException"
                    [] ev.v = 404 -> "NotFoundError"
                    [] OTHER -> "TransportError", ev.v)
         ELSE NoExc

\* Faulty variant of ShouldRetry: a timeout is retried whatever
\* retry_on_timeout says.
ShouldRetry_TimeoutAlways(e, on_timeout) ==
    IF e.cls \in {"ConnectionTimeout", "ConnectionError", "SSLError"} THEN TRUE
    ELSE e.status_code \in retry_on_status

\* The retry decision of main_loop for a TransportError e.
ShouldRetry(e, on_timeout) ==
    IF e.cls = "ConnectionTimeout" THEN on_timeout
    ELSE IF e.cls \in {"ConnectionError", "SSLError"} THEN TRUE
    ELSE e.status_code \in retry_on_status

Bool(b) == [t |-> "bool", v |-> b]

\* Faulty variant of LastAttempt: gives up one iteration early.
LastAttempt_Early(k, retries) == k + 1 >= retries

\* Faulty variant of LastAttempt: the loop goes on for one more iteration.
LastAttempt_Late(k, retries) == k = retries + 1

\* "if attempt == self.max_retries: raise": the last iteration of the loop.
LastAttempt(k, retries) == k = retries

\* Faulty variant of HeadResult: every status below 500 counts as found.
HeadResult_Below500(status) == status < 500

\* What a HEAD request returns for a status the connection returned.
HeadResult(status) == 200 <= status /\ status < 300

\* Faulty variant of MainLoopStep: the connection of the last attempt is not
\* marked dead before the failure is raised.
MainLoopStep_LastNotDead(method, ignore, k, retries, on_timeout, ev, data) ==
    LET e == ConnPerformRequest(ev, ignore) IN
    IF e.raised
    THEN IF method = "HEAD" /\ e.status_code = 404
         THEN [next |-> "return", val |-> Bool(FALSE), exc |-> e, mark |-> "none",
               retry |-> FALSE]
         ELSE IF ShouldRetry(e, on_timeout)
              THEN IF LastAttempt(k, retries)
                   THEN [next |-> "raise", val |-> NoneV, exc |-> e, mark |-> "none",
                         retry |-> TRUE]
                   ELSE [next |-> "continue", val |-> NoneV, exc |-> e,
                         mark |-> "dead", retry |-> TRUE]
              ELSE [next |-> "raise", val |-> NoneV, exc |-> e, mark |-> "none",
                    retry |-> FALSE]
    ELSE IF method = "HEAD"
         THEN [next |-> "return", val |-> Bool(HeadResult(ev.v)), exc |-> e,
               mark |-> "none", retry |-> FALSE]
         ELSE IF data.t = "garbled"
              THEN [next |-> "raise", val |-> NoneV,
                    exc |-> Exc("SerializationError", 0), mark |-> "live",
                    retry |-> FALSE]
              ELSE [next |-> "return", val |-> data, exc |-> e, mark |-> "live",
                    retry |-> FALSE]

\* One iteration of main_loop's for loop: what the loop does next, the value
\* or exception it ends with, and how it marks the connection.
MainLoopStep(method, ignore, k, retries, on_timeout, ev, data) ==
    LET e == ConnPerformRequest(ev, ignore) IN
    IF e.raised
    THEN IF method = "HEAD" /\ e.status_code = 404
         THEN [next |-> "return", val |-> Bool(FALSE), exc |-> e, mark |-> "none",
               retry |-> FALSE]
         ELSE IF ShouldRetry(e, on_timeout)
              THEN [next |-> IF LastAttempt(k, retries) THEN "raise" ELSE "continue",
                    val |-> NoneV, exc |-> e, mark |-> "dead", retry |-> TRUE]
              ELSE [next |-> "raise", val |-> NoneV, exc |-> e, mark |-> "none",
                    retry |-> FALSE]
    ELSE IF method = "HEAD"
         THEN [next |-> "return", val |-> Bool(HeadResult(ev.v)), exc |-> e,
               mark |-> "none", retry |-> FALSE]
         ELSE IF data.t = "garbled"
              THEN [next |-> "raise", val |-> NoneV,
                    exc |-> Exc("SerializationError", 0), mark |-> "live",
                    retry |-> FALSE]
              ELSE [next |-> "return", val |-> data, exc |-> e, mark |-> "live",
                    retry |-> FALSE]

\* A request body: None, a str (the bulk lines) or a dict (a query).
StrBody(lines) == [t |-> "str", lines |-> lines]
DictBody(d) == [t |-> "dict", lines |-> <<d>>]
\* self.serializer.dumps: a str passes through, anything else becomes JSON text.
SerializerDumps(b) == IF b.t = "str" THEN b ELSE StrBody(<<Dumps(b.lines[1])>>)
Encode(b) == IF b.t = "str" THEN [t |-> "bytes", lines |-> b.lines] ELSE b

\* Query parameters: None or a dict.
Params(d) == [t |-> "dict", d |-> d]
Del(d, k) == SelectSeq(d, LAMBDA e : e.k # k)

\* Faulty variant of PerformRequest: send_get_body_as is applied whatever the
\* method is.
PerformRequest_AnyMethod(method, url, params, body, get_body_as) ==
    LET b1 == IF body # NoneV THEN SerializerDumps(body) ELSE body
        convert == body # NoneV /\ get_body_as # "GET"
        m2 == IF convert /\ get_body_as = "POST" THEN "POST" ELSE method
        toSource == convert /\ get_body_as = "source"
        p2 == IF toSource
              THEN Params(Put(IF params = NoneV THEN <<>> ELSE params.d, "source", b1))
              ELSE params
        b2 == IF toSource THEN NoneV ELSE b1
        b3 == IF b2 # NoneV THEN Encode(b2) ELSE b2
        truthy == p2 # NoneV /\ Len(p2.d) > 0
        popped == truthy /\ Has(p2.d, "ignore")
        ign == IF popped THEN Get(p2.d, "ignore") ELSE [t |-> "tuple", v |-> {}]
    IN  [method |-> m2, url |-> url,
         params |-> IF popped THEN Params(Del(p2.d, "ignore")) ELSE p2,
         body |-> b3,
         ignore |-> IF ign.t = "int" THEN {ign.v} ELSE ign.v]

\* MyAsyncTransport.perform_request up to the start of main_loop: the body
\* is serialised, a GET/HEAD with a body follows send_get_body_as, the body is
\* encoded and 'ignore' is popped from the parameters.
PerformRequest(method, url, params, body, get_body_as) ==
    LET b1 == IF body # NoneV THEN SerializerDumps(body) ELSE body
        convert == body # NoneV /\ method \in {"HEAD", "GET"} /\ get_body_as # "GET"
        m2 == IF convert /\ get_body_as = "POST" THEN "POST" ELSE method
        toSource == convert /\ get_body_as = "source"
        p2 == IF toSource
              THEN Params(Put(IF params = NoneV THEN <<>> ELSE params.d, "source", b1))
              ELSE params
        b2 == IF toSource THEN NoneV ELSE b1
        b3 == IF b2 # NoneV THEN Encode(b2) ELSE b2
        truthy == p2 # NoneV /\ Len(p2.d) > 0
        popped == truthy /\ Has(p2.d, "ignore")
        ign == IF popped THEN Get(p2.d, "ignore") ELSE [t |-> "tuple", v |-> {}]
    IN  [method |-> m2, url |-> url,
         params |-> IF popped THEN Params(Del(p2.d, "ignore")) ELSE p2,
         body |-> b3,
         ignore |-> IF ign.t = "int" THEN {ign.v} ELSE ign.v]

NoReq == [method |-> "", url |-> "", params |-> NoneV, body |-> NoneV, ignore |-> {}]

(***************************************************************************)
(* Bulk responses and their parsing (add_dict_to_es, lines 183-203).       *)
(***************************************************************************)
\* Per-item results of a response: the item's one entry carries an "error"
\* ("err") or not ("ok"); "bad" is an item that is no mapping at all.
RECURSIVE SeqsUpTo(_, _)
SeqsUpTo(S_, n) ==
    IF n = 0 THEN {<<>>}
    ELSE LET shorter == SeqsUpTo(S_, n - 1)
         IN  shorter \cup {Append(q, x) : q \in {r \in shorter : Len(r) = n - 1}, x \in S_}

HasErr(its) == \E i \in 1..Len(its) : its[i] = "err"

Resp(hasErrors, errors, hasItems, its) ==
    [t |-> "obj", hasErrors |-> hasErrors, errors |-> errors,
     hasItems |-> hasItems, items |-> its]
EmptyData == [Resp(FALSE, FALSE, FALSE, <<>>) EXCEPT !.t = "empty"]
GarbledData == [Resp(FALSE, FALSE, FALSE, <<>>) EXCEPT !.t = "garbled"]

\* What the server sends for a bulk request it accepted: one result per
\* action it saw, errors set when one of them failed.
WellFormedResponses ==
    {Resp(TRUE, HasErr(its), TRUE, its) : its \in SeqsUpTo({"ok", "err"}, MaxRespItems)}

\* An empty body, text that is no JSON, and objects without the fields read.
MalformedResponses ==
    {EmptyData, GarbledData,
     Resp(FALSE, FALSE, TRUE, <<"ok">>),
     Resp(TRUE, TRUE, FALSE, <<>>),
     Resp(TRUE, FALSE, FALSE, <<>>),
     Resp(TRUE, TRUE, TRUE, <<"err", "bad">>)}

BulkResponses == WellFormedResponses \cup MalformedResponses
PlainData == {EmptyData, GarbledData, Resp(TRUE, FALSE, TRUE, <<>>)}

\* Faulty variant of CountItems: a failed item is logged but counted as a
\* success.
RECURSIVE CountItems_ErrAsSuccess(_, _, _, _, _, _)
CountItems_ErrAsSuccess(its, i, success, fail, logs, log_errors) ==
    IF i > Len(its)
    THEN [raised |-> FALSE, success |-> success, fail |-> fail, logs |-> logs]
    ELSE IF its[i] = "bad"
         THEN [raised |-> TRUE, success |-> success, fail |-> fail, logs |-> logs]
         ELSE CountItems_ErrAsSuccess(its, i + 1, success + 1, fail,
                                      IF its[i] = "err" /\ log_errors THEN logs + 1
                                      ELSE logs, log_errors)

\* The loop over r["items"]: counts, and the errors logged, up to the end or
\* to the first item that cannot be read.
RECURSIVE CountItems(_, _, _, _, _, _)
CountItems(its, i, success, fail, logs, log_errors) ==
    IF i > Len(its)
    THEN [raised |-> FALSE, success |-> success, fail |-> fail, logs |-> logs]
    ELSE IF its[i] = "bad"
         THEN [raised |-> TRUE, success |-> success, fail |-> fail, logs |-> logs]
         ELSE IF its[i] = "err"
              THEN CountItems(its, i + 1, success, fail + 1,
                              IF log_errors THEN logs + 1 ELSE logs, log_errors)
              ELSE CountItems(its, i + 1, success + 1, fail, logs, log_errors)

BulkReturn(success, fail, r) == [kind |-> "return", val |-> <<success, fail, r>>]
Sentinel == BulkReturn(NoneV, NoneV, NoneV)
\* Faulty variant of BulkRaise: the exception is caught and the sentinel
\* returned.
BulkRaise_Caught == [kind |-> "return", val |-> <<NoneV, NoneV, NoneV>>]

\* add_dict_to_es ends with an exception.
BulkRaise == [kind |-> "raise", val |-> <<NoneV, NoneV, NoneV>>]
NoResult == [kind |-> "none", val |-> <<NoneV, NoneV, NoneV>>]

\* Faulty variant of OnException: the exception is logged and raised again.
OnException_Reraise(logs) == [ret |-> BulkRaise, logs |-> logs]

\* Faulty variant of NoErrorsResult: success is left at its initial 0.
NoErrorsResult_Zero(r) == [ret |-> BulkReturn(I(0), I(0), r), logs |-> 0]

\* The except clause: whatever was raised inside the try block is logged
\* and the call returns the sentinel; logs item errors were logged before.
OnException(logs) == [ret |-> Sentinel, logs |-> logs]

\* The else branch of "if r['errors']".
NoErrorsResult(r) == [ret |-> BulkReturn(I(Len(r.items)), I(0), r), logs |-> 0]

\* The try block of add_dict_to_es once perform_request has ended with tr:
\* the value returned and the number of item errors logged.  Reading
\* r["errors"] or r["items"] raises on an empty body (a str) and on an object
\* without the key.
ParseResponse(tr, log_errors) ==
    IF tr.kind = "raise" \/ tr.val.t # "obj" \/ ~tr.val.hasErrors
    THEN OnException(0)
    ELSE LET r == tr.val IN
         IF ~r.hasItems THEN OnException(0)
         ELSE IF r.errors
              THEN LET c == CountItems(r.items, 1, 0, 0, 0, log_errors) IN
                   IF c.raised THEN OnException(c.logs)
                   ELSE [ret |-> BulkReturn(I(c.success), I(c.fail), r), logs |-> c.logs]
              ELSE NoErrorsResult(r)

(***************************************************************************)
(* The client: requests through the transport and bulk writes.             *)
(***************************************************************************)
\* A client built by get_es_client() passes only hosts, so its transport
\* keeps the library's max_retries; retry_on_timeout is then off and
\* send_get_body_as is 'GET'.
DefaultMaxRetries == 3

RecA == <<E("appCode", S("a")), E("id", S("1"))>>
RecB == <<E("title", S("x"))>>
RecC == <<E("id", S("1")), E("createDate", I(7))>>
RecD == <<E("appCode", S("a")), E("id", I(5))>>
RecE == <<E("title", Obj)>>
Records == {RecA, RecB, RecC, RecD, RecE}
Batches == SeqsUpTo(Records, MaxBatch)

\* The arguments of a perform_request call; NoGiven when none was made.
Given(method, params, body) == [method |-> method, params |-> params, body |-> body]
NoGiven == Given("", NoneV, NoneV)

NoTransportResult == [kind |-> "none", val |-> NoneV, exc |-> NoExc]

\* No call in progress and none made yet.
EsIdle ==
    /\ now = 0
    /\ phase = "idle"
    /\ caller = "none"
    /\ req = NoReq
    /\ given = NoGiven
    /\ error_if_fail = TRUE
    /\ attempt = 0
    /\ nAttempts = 0
    /\ lastEv = NoEvent
    /\ lastExc = NoExc
    /\ allRetry = TRUE
    /\ mark = "none"
    /\ tres = NoTransportResult
    /\ bres = NoResult
    /\ errLogs = 0
    /\ items0 = <<>>
    /\ sent = <<>>
    /\ ncalls = 0
    /\ sleeps = <<>>

\* No writer config is in use.
PoolIdle ==
    /\ sink = "none"
    /\ init_result = "none"
    /\ cfg = NoCfg
    /\ pool_kwargs = [p \in PoolIds |-> NoKwargs]
    /\ ops = <<>>
    /\ nfree = 0
    /\ redis_pool_cli = None
    /\ redis_write_method = NoMethod
    /\ mysql_pool_cli = None
    /\ connection = None
    /\ cursor = None
    /\ pools = [p \in PoolIds |-> "none"]
    /\ pc = [t \in Tasks |-> "idle"]
    /\ mine = [t \in Tasks |-> None]
    /\ ret = [t \in Tasks |-> NoCall]
    /\ calls = 0
    /\ rets = <<>>
    /\ created = 0

\* A transport with any retry bound and either timeout policy (main_loop
\* reads both from self), used directly.
InitTransport ==
    /\ PoolIdle
    /\ EsIdle
    /\ max_retries \in 0..MaxRetries
    /\ retry_on_timeout \in BOOLEAN
    /\ send_get_body_as \in {"GET", "POST", "source"}
    /\ items = <<>>
    /\ app_code = NoneV
    /\ create_date = NoneV
    /\ id_hash_func = "default"
    /\ random_min_sleep = 0
    /\ random_max_sleep = 0

\* A client as get_es_client() builds it, a batch of records of the caller
\* and the write parameters of its config (sleep bounds of 1 and 2 seconds).
InitBulk ==
    /\ PoolIdle
    /\ EsIdle
    /\ max_retries = DefaultMaxRetries
    /\ retry_on_timeout = FALSE
    /\ send_get_body_as = "GET"
    /\ items \in Batches
    /\ app_code \in {NoneV, S("b")}
    /\ create_date \in {NoneV, I(9)}
    /\ id_hash_func \in {"default", "by_id"}
    /\ random_min_sleep = 1
    /\ random_max_sleep = 2

\* A call of who begins: request q enters main_loop, or the call has already
\* ended (ph = "done") with the exception in br.
StartCall(q, who, ph, br) ==
    /\ req' = q
    /\ caller' = who
    /\ phase' = ph
    /\ attempt' = 0
    /\ nAttempts' = 0
    /\ lastEv' = NoEvent
    /\ lastExc' = NoExc
    /\ allRetry' = TRUE
    /\ mark' = "none"
    /\ tres' = NoTransportResult
    /\ bres' = br
    /\ errLogs' = 0
    /\ sleeps' = <<>>

\* transport.perform_request called by client code other than the bulk write
\* (exists, get, search ...).
TransportCall ==
    /\ phase \in {"idle", "done"}
    /\ ncalls < MaxEsCalls
    /\ ncalls' = ncalls + 1
    /\ \E method \in {"GET", "HEAD", "POST"},
          params \in {NoneV, Params(<<>>), Params(<<E("ignore", I(404))>>),
                      Params(<<E("ignore", [t |-> "tuple", v |-> {400, 404}])>>),
                      Params(<<E("size", I(1)), E("ignore", I(404))>>)},
          body \in {NoneV, DictBody(<<E("query", S("q"))>>)} :
            /\ StartCall(PerformRequest(method, "/idx/doc/1", params, body,
                                        send_get_body_as),
                         "direct", "loop", NoResult)
            /\ given' = Given(method, params, body)
    /\ UNCHANGED <<max_retries, retry_on_timeout, send_get_body_as, items, app_code,
                   create_date, id_hash_func, now, error_if_fail, items0, sent>>
    /\ UNCHANGED sleepBounds
    /\ UNCHANGED poolVars

\* add_dict_to_es up to its await: the body is built (the records are changed
\* in place; time.time() reads a later second in every call) and the POST
\* handed to the transport; an exception of the identifier function or of
\* json.dumps leaves the call at once.
AddDictToEs ==
    /\ phase \in {"idle", "done"}
    /\ ncalls < MaxEsCalls
    /\ ncalls' = ncalls + 1
    /\ \E log_errors \in BOOLEAN, actions \in {NoneV, S("index")} :
        \E b \in {BuildBody(items, 1, <<>>, <<>>, id_hash_func, app_code, create_date,
                           IF Truthy(actions) THEN actions.v ELSE "index", now + 1)} :
            /\ now' = now + 1
            /\ items0' = items
            /\ items' = b.items
            /\ error_if_fail' = log_errors
            /\ IF b.raised
               THEN /\ StartCall(NoReq, "bulk", "done", BulkRaise)
                    /\ given' = NoGiven
                    /\ sent' = sent
               ELSE /\ StartCall(PerformRequest("POST", "/_bulk?pretty", NoneV,
                                                StrBody(b.body), send_get_body_as),
                                 "bulk", "loop", NoResult)
                    /\ given' = Given("POST", NoneV, StrBody(b.body))
                    /\ sent' = Append(sent, b.ids)
    /\ UNCHANGED <<max_retries, retry_on_timeout, send_get_body_as, app_code,
                   create_date, id_hash_func>>
    /\ UNCHANGED sleepBounds
    /\ UNCHANGED poolVars

\* The data a request can be answered with: a body is read only when the
\* connection returns, and main_loop looks at it only for a method other
\* than HEAD.
DataFor(ev, who, method, ignore) ==
    IF ConnPerformRequest(ev, ignore).raised \/ method = "HEAD" THEN {EmptyData}
    ELSE IF who = "bulk" THEN BulkResponses ELSE PlainData

\* One iteration of main_loop: the connection performs the request, the
\* server (or the network) decides how it ends; a retried iteration is
\* followed by the next one with no sleep awaited in between.  When main_loop
\* ends under add_dict_to_es, the bulk write resumes from its await at once:
\* it reads the response, or catches the exception, and returns.
Attempt ==
    /\ phase = "loop"
    /\ \E ev \in Events :
        \E data \in DataFor(ev, caller, req.method, req.ignore) :
        LET st == MainLoopStep(req.method, req.ignore, attempt, max_retries,
                               retry_on_timeout, ev, data)
            tr == [kind |-> st.next, val |-> st.val, exc |-> st.exc]
            p == ParseResponse(tr, error_if_fail)
        IN  /\ nAttempts' = nAttempts + 1
            /\ lastEv' = ev
            /\ lastExc' = st.exc
            /\ allRetry' = (allRetry /\ st.retry)
            /\ mark' = st.mark
            /\ IF st.next = "continue"
               THEN /\ attempt' = attempt + 1
                    /\ UNCHANGED <<phase, tres, bres, errLogs>>
               ELSE /\ attempt' = attempt
                    /\ phase' = "done"
                    /\ tres' = tr
                    /\ IF caller = "bulk"
                       THEN bres' = p.ret /\ errLogs' = p.logs
                       ELSE UNCHANGED <<bres, errLogs>>
    /\ UNCHANGED <<max_retries, retry_on_timeout, send_get_body_as, items, app_code,
                   create_date, id_hash_func, now, caller, req, error_if_fail,
                   items0, sent, ncalls>>
    /\ UNCHANGED <<sleepBounds, sleeps, given>>
    /\ UNCHANGED poolVars

\* No config has been constructed yet.
InitConfig ==
    /\ PoolIdle
    /\ EsUnused

\* A constructor is called and, when it returns, the pool methods of the
\* config are.
NextConfig ==
    \/ WRedisConfigInit
    \/ WMySQLConfigInit
    \/ WESConfigInit
    \/ \E t \in Tasks : GetRedisCall(t)
    \/ \E t \in Tasks : RedisCreateDone(t)
    \/ \E t \in Tasks : RedisCreateFail(t)
    \/ \E t \in Tasks : GetMysqlCall(t)
    \/ \E t \in Tasks : MysqlCreateDone(t)
    \/ \E t \in Tasks : MysqlAcquireDone(t)
    \/ \E t \in Tasks : MysqlCursorDone(t)
    \/ \E t \in Tasks : MysqlAwaitFail(t)
    \/ FreeResource

SpecConfig == InitConfig /\ [][NextConfig]_vars

NextTransport ==
    \/ TransportCall
    \/ Attempt

NextBulk ==
    \/ AddDictToEs
    \/ Attempt

SpecTransport == InitTransport /\ [][NextTransport]_vars
SpecBulk == InitBulk /\ [][NextBulk]_vars

(***************************************************************************)
(* Properties of the connection pools.                                     *)
(***************************************************************************)
\* C1: for calls that each run to completion before the next starts
\* (SpecPoolSeq), all the handles the getter returned since the last release
\* are one and the same pool, exactly one pool was constructed since that
\* release, and that pool is open and newer than every pool released before
\* it: a get after free_resource constructs a new pool.
C1_CachedHandle ==
    /\ \A i \in 1..Len(rets) : rets[i] = rets[1]
    /\ Len(rets) >= 1 =>
        /\ created = 1
        /\ rets[1] # None
        /\ rets[1] = Constructed
        /\ pools[rets[1]] = "open"
        /\ \A p \in PoolIds : p < rets[1] => pools[p] = "closed"

\* Two calls in a row returned the pool constructed after a release.
C1_Witness ==
    /\ sink = "mysql"
    /\ Len(rets) >= 2
    /\ Constructed >= 2
    /\ mysql_pool_cli = rets[2]

\* C2: at most one pool of a config is constructed and not yet closed, in
\* every interleaving of the tasks that call the getter (SpecPool).
C2_AtMostOnePool == Cardinality(OpenPools) <= 1

(***************************************************************************)
(* Properties of the transport's retry loop.                               *)
(***************************************************************************)
\* C3: no request is attempted more than max_retries + 1 times, and a request
\* whose every attempt failed with a failure the loop retries has been
\* attempted exactly max_retries + 1 times when main_loop ends, which it then
\* does by raising that failure (SpecTransport).
C3_ExactlyNPlusOne ==
    /\ nAttempts <= max_retries + 1
    /\ (phase = "done" /\ allRetry) =>
        /\ nAttempts = max_retries + 1
        /\ tres.kind = "raise"
        /\ tres.exc = lastExc

\* With max_retries = 3 the fourth failure is raised.
C3_Witness ==
    /\ phase = "done"
    /\ allRetry
    /\ max_retries = 3
    /\ nAttempts = 4
    /\ tres.kind = "raise"

\* The failure classes C4 calls transient.
Transient(e) ==
    \/ e.cls \in {"ConnectionError", "SSLError", "ConnectionTimeout"}
    \/ e.status_code \in retry_on_status

\* An iteration of main_loop has just ended with a failure of the connection.
AttemptFailed == nAttempts' = nAttempts + 1 /\ lastExc'.raised
Retried == phase' = "loop" /\ attempt' = attempt + 1
RaisedAtOnce == phase' = "done" /\ tres'.kind = "raise" /\ tres'.exc = lastExc'

\* C4 as it is stated: every transient failure is retried while attempts
\* remain, every other failure is raised at once.
C4_AsStated ==
    [][AttemptFailed =>
        IF Transient(lastExc')
        THEN attempt < max_retries => Retried
        ELSE RaisedAtOnce]_vars

\* C4, amended: a connection error, a status of retry_on_status and, when
\* retry_on_timeout is set, a connection timeout are retried while attempts
\* remain and raised on the last attempt; every other failure, a timeout
\* with retry_on_timeout off among them, is raised at once, except the 404 of
\* a HEAD request, which is returned as False (SpecTransport).
C4_RetryIffRetryable ==
    [][AttemptFailed =>
        IF req.method = "HEAD" /\ lastExc'.status_code = 404
        THEN phase' = "done" /\ tres'.kind = "return" /\ tres'.val = Bool(FALSE)
        ELSE IF \/ lastExc'.cls \in {"ConnectionError", "SSLError"}
                \/ lastExc'.cls = "ConnectionTimeout" /\ retry_on_timeout
                \/ lastExc'.status_code \in retry_on_status
             THEN IF attempt < max_retries THEN Retried ELSE RaisedAtOnce
             ELSE RaisedAtOnce]_vars

\* A timeout was raised after one attempt although retries remained.
C4_Witness ==
    /\ phase = "done"
    /\ tres.kind = "raise"
    /\ lastExc.cls = "ConnectionTimeout"
    /\ ~retry_on_timeout
    /\ nAttempts = 1
    /\ max_retries > 0

\* C8: a request sent as HEAD ends, when the server's last answer is 404,
\* with the boolean False and, when it is a 2xx status, with the boolean
\* True; main_loop neither raises nor returns a body (SpecTransport).
C8_HeadBoolean ==
    (phase = "done" /\ req.method = "HEAD" /\ lastEv.t = "http") =>
        /\ lastEv.v = 404 => tres.kind = "return" /\ tres.val = Bool(FALSE)
        /\ (200 <= lastEv.v /\ lastEv.v < 300) =>
                tres.kind = "return" /\ tres.val = Bool(TRUE)

\* A HEAD request was answered 404 and returned False.
C8_Witness ==
    /\ phase = "done"
    /\ req.method = "HEAD"
    /\ lastEv = [t |-> "http", v |-> 404]
    /\ tres.kind = "return"
    /\ tres.val = Bool(FALSE)

(***************************************************************************)
(* Properties of the bulk write (SpecBulk).                                *)
(***************************************************************************)
\* The bulk write has built its body, sent it and returned or raised.
BulkEnded == caller = "bulk" /\ phase = "done" /\ nAttempts >= 1

\* The response lacks a field add_dict_to_es reads, or is no object at all.
Unreadable(r) ==
    \/ r.t # "obj"
    \/ ~r.hasErrors
    \/ ~r.hasItems
    \/ r.errors /\ \E i \in 1..Len(r.items) : r.items[i] = "bad"

NumOf(its, kind) == Cardinality({i \in 1..Len(its) : its[i] = kind})

\* C5: when the request of a bulk write raises (retries exhausted, a failure
\* that is not retried, a body that cannot be deserialised) or the response
\* lacks the fields that are read, the call returns (None, None, None); once
\* the request was sent the call never ends with an exception.
C5_SentinelOnException ==
    BulkEnded =>
        /\ bres.kind = "return"
        /\ (tres.kind = "raise" \/ Unreadable(tres.val)) => bres = Sentinel

\* The retries were exhausted and the call returned the sentinel.
C5_Witness ==
    /\ BulkEnded
    /\ tres.kind = "raise"
    /\ nAttempts = max_retries + 1
    /\ allRetry
    /\ bres = Sentinel

\* C6: for a response with errors = true whose items can all be read, the
\* call returns the number of items without an error, the number of items
\* with one and the response; it does not raise, and it logs one error for
\* each failed item if error_if_fail is set and none otherwise.
C6_CountsOnErrors ==
    (BulkEnded /\ tres.kind = "return" /\ ~Unreadable(tres.val) /\ tres.val.errors) =>
        /\ bres = BulkReturn(I(NumOf(tres.val.items, "ok")),
                             I(NumOf(tres.val.items, "err")), tres.val)
        /\ bres.val[1].v + bres.val[2].v = Len(tres.val.items)
        /\ errLogs = IF error_if_fail THEN NumOf(tres.val.items, "err") ELSE 0

\* One item succeeded and one failed; its error was logged.
C6_Witness ==
    /\ BulkEnded
    /\ tres.kind = "return"
    /\ tres.val.t = "obj"
    /\ tres.val.errors
    /\ bres.val[1] = I(1)
    /\ bres.val[2] = I(1)
    /\ error_if_fail
    /\ errLogs = 1

\* A readable response with errors = false has come back.
NoErrorsEnded ==
    BulkEnded /\ tres.kind = "return" /\ ~Unreadable(tres.val) /\ ~tres.val.errors

\* C7 as it is stated: with errors = false the success count is the number of
\* records submitted, the fail count 0.
C7_AsStated ==
    NoErrorsEnded => bres.val[1] = I(Len(items)) /\ bres.val[2] = I(0)

\* C7, amended: with errors = false the success count is the number of
\* per-item results in the response and the fail count 0; it is the number of
\* records submitted when the response holds one result for each of them.
C7_CountsResponseItems ==
    NoErrorsEnded =>
        /\ bres = BulkReturn(I(Len(tres.val.items)), I(0), tres.val)
        /\ Len(tres.val.items) = Len(items) => bres.val[1] = I(Len(items))

\* Two records were written and the response reported two results.
C7_Witness ==
    /\ NoErrorsEnded
    /\ Len(items) = 2
    /\ Len(tres.val.items) = 2
    /\ bres.val[1] = I(2)

\* C9: a batch submitted twice with the default identifier function gets the
\* same identifiers the second time.
C9_SameIdOnRedelivery ==
    (id_hash_func = "default" /\ Len(sent) >= 2) => sent[2] = sent[1]

\* The body of a bulk write was built with the default identifier function.
DefaultBuilt ==
    /\ caller = "bulk"
    /\ id_hash_func = "default"
    /\ bres.kind # "raise"
    /\ phase \in {"loop", "done"}

\* Record i had no createDate when its identifier was computed: it came
\* without one and the call stamps none.
LackedCreateDate(i) == ~Has(items0[i], "createDate") /\ ~Truthy(create_date)

\* C10: after the body is built with the default identifier function, a
\* record that had no createDate when its identifier was computed holds one
\* (the time of the call), and the record line sent for it is the record
\* with that createDate; a record that had one (its own, or the one the call
\* stamps) still has that value.
C10_CreateDateInjected ==
    DefaultBuilt =>
        \A i \in 1..Len(items) :
            /\ Has(items[i], "createDate")
            /\ req.body.lines[2 * i] = Dumps(items[i])
            /\ Get(items[i], "createDate") =
                  IF LackedCreateDate(i) THEN I(now)
                  ELSE IF Truthy(create_date) THEN create_date
                  ELSE Get(items0[i], "createDate")

\* A record without createDate was sent, and one with its own.
C10_Witness ==
    /\ DefaultBuilt
    /\ Len(items) = 2
    /\ LackedCreateDate(1)
    /\ Has(items0[2], "createDate")
    /\ Get(items[1], "createDate") = I(now)

\* C11: when a bulk write has ended, every record of the caller has exactly
\* the fields and values it had when the call began.
C11_RecordsUnchanged ==
    (caller = "bulk" /\ phase = "done") => items = items0

\* The body of a bulk write was built and handed to the transport.
BodyBuilt ==
    /\ caller = "bulk"
    /\ bres.kind # "raise"
    /\ phase \in {"loop", "done"}

\* Record i of the batch as the call stamps it before its identifier is
\* computed.
StampedInput(i) ==
    LET s1 == IF Truthy(app_code) THEN Put(items0[i], "appCode", app_code)
              ELSE items0[i]
    IN  IF Truthy(create_date) THEN Put(s1, "createDate", create_date) ELSE s1

\* The fields of record i that no stamp touches are those the caller passed.
SameRecord(i) ==
    \A j \in 1..Len(items0[i]) :
        items0[i][j].k \notin {"appCode", "createDate"} =>
            /\ Has(items[i], items0[i][j].k)
            /\ Get(items[i], items0[i][j].k) = items0[i][j].v

\* C12: the body handed to the transport for a batch of n records has 2n
\* lines; line 2i-1 is the action descriptor (kind, _index, _type, _id) whose
\* _id is the identifier of the i-th record of the batch, and line 2i is the
\* JSON of that same record.
C12_BodyLines ==
    BodyBuilt =>
        /\ Len(req.body.lines) = 2 * Len(items0)
        /\ \A i \in 1..Len(items0) :
            /\ req.body.lines[2 * i - 1] =
                  ActionLine("index", IdHash(id_hash_func, StampedInput(i), now).id)
            /\ req.body.lines[2 * i] = Dumps(items[i])
            /\ SameRecord(i)

\* A batch of two different records was sent.
C12_Witness ==
    /\ BodyBuilt
    /\ phase = "done"
    /\ Len(items0) = 2
    /\ items0[1] # items0[2]
    /\ Len(req.body.lines) = 4

\* C13 as it is stated: one bulk write sends its POST at most once.
C13_AsStated == caller = "bulk" => nAttempts <= 1

\* C13, amended: a bulk write calls perform_request once and ends when that
\* call ends, but the transport's loop may send the POST again: only after an
\* attempt that failed with a connection error or a status of
\* retry_on_status (never after a timeout, retry_on_timeout being off), only
\* while attempts remain, and so at most max_retries + 1 times in all.
C13_OneTransportCall ==
    caller = "bulk" =>
        /\ nAttempts <= max_retries + 1
        /\ (phase = "loop" /\ nAttempts >= 1) =>
            /\ nAttempts <= max_retries
            /\ lastExc.raised
            /\ \/ lastExc.cls \in {"ConnectionError", "SSLError"}
               \/ lastExc.status_code \in retry_on_status
        /\ (phase = "done" /\ nAttempts >= 1) => bres.kind = "return"

\* The POST was sent again after a failure and the second answer was read.
C13_Witness ==
    /\ caller = "bulk"
    /\ phase = "done"
    /\ nAttempts = 2
    /\ tres.kind = "return"
    /\ bres.kind = "return"
    /\ bres # Sentinel

(***************************************************************************)
(* Properties of free_resource and of the handle the getter returns.       *)
(***************************************************************************)
\* A step that is a call of free_resource.
FreeStep == nfree' = nfree + 1

TimesClosed(log, p) ==
    Cardinality({i \in 1..Len(log) : log[i].pool = p /\ log[i].op = "close"})

\* C14: free_resource on a config that holds a pool releases the connection
\* field to that pool, then closes the pool, then schedules wait_closed(), and
\* leaves pool, connection and cursor None; on a config whose pool is None it
\* calls nothing and changes nothing; no pool is ever closed twice (SpecPool).
C14_FreeResourceOrder ==
    [][/\ FreeStep =>
            IF mysql_pool_cli # None
            THEN /\ ops' = ops \o <<PoolOp("release", mysql_pool_cli, connection),
                                    PoolOp("close", mysql_pool_cli, None),
                                    PoolOp("wait_closed", mysql_pool_cli, None)>>
                 /\ pools'[mysql_pool_cli] = "closed"
                 /\ mysql_pool_cli' = None
                 /\ connection' = None
                 /\ cursor' = None
            ELSE UNCHANGED <<ops, pools, mysql_pool_cli, connection, cursor>>
       /\ \A p \in PoolIds : TimesClosed(ops', p) <= 1]_vars

\* A connected config was freed and free_resource called once more: one
\* release of the connection held, one close.
C14_Witness ==
    /\ nfree = 2
    /\ calls = 3
    /\ ops = <<PoolOp("release", 1, 1), PoolOp("close", 1, None),
               PoolOp("wait_closed", 1, None)>>
    /\ mysql_pool_cli = None
    /\ connection = None
    /\ cursor = None

\* C15: a call of get_mysql_pool_cli that returns a pool handle leaves the
\* config holding a connection and a cursor of that pool, in every
\* interleaving of the tasks (SpecPool).
C15_ReturnedWithConnection ==
    [][(sink = "mysql" /\ Len(rets') = Len(rets) + 1) =>
            /\ connection' # None
            /\ cursor' # None
            /\ connection' = rets'[Len(rets')]
            /\ cursor' = rets'[Len(rets')]]_vars

(***************************************************************************)
(* Properties of the marking of connections (SpecTransport).               *)
(***************************************************************************)
\* The connection of the last attempt answered and nothing was raised for
\* its status.
ConnectionReturned ==
    /\ lastEv.t = "http"
    /\ (200 <= lastEv.v /\ lastEv.v < 300) \/ lastEv.v \in req.ignore

\* The connection of the last attempt failed at the level of the connection.
ConnectionFailed ==
    /\ lastEv.t = "net" \/ lastEv.v \in retry_on_status
    /\ ~ConnectionReturned

\* C16 as it is stated: whatever the method, the connection of an attempt is
\* marked dead when the attempt ends in a connection-level failure and live
\* when it succeeds.
C16_AsStated ==
    nAttempts >= 1 =>
        /\ ConnectionFailed => mark = "dead"
        /\ ConnectionReturned => mark = "live"

\* C16, amended: the connection of an attempt is marked dead exactly when the
\* attempt ends in a failure the loop retries (a connection error, a status of
\* retry_on_status, a timeout only with retry_on_timeout set), the final
\* attempt included; it is marked live exactly when the connection returns
\* for a method other than HEAD; a HEAD request never marks it live.
C16_MarksConnection ==
    nAttempts >= 1 =>
        /\ mark = "dead" <=>
              /\ ConnectionFailed
              /\ (lastEv.t = "net" /\ lastEv.v = "timeout") => retry_on_timeout
        /\ mark = "live" <=> (ConnectionReturned /\ req.method # "HEAD")

\* The last attempt of a request failed and its connection was marked dead.
C16_Witness ==
    /\ phase = "done"
    /\ max_retries >= 1
    /\ nAttempts = max_retries + 1
    /\ tres.kind = "raise"
    /\ ConnectionFailed
    /\ mark = "dead"

(***************************************************************************)
(* Properties of the constructors (SpecConfig).                            *)
(***************************************************************************)
\* The store of the config is configured, or (key-value and relational) a
\* positive port was passed.
ConnectionParamsPresent ==
    IF sink = "es" THEN cfg.configured ELSE cfg.configured \/ cfg.port > 0

\* No config object exists and nothing was ever created for one.
NothingBuilt ==
    /\ sink = "none"
    /\ cfg = NoCfg
    /\ calls = 0
    /\ Constructed = 0
    /\ redis_pool_cli = None
    /\ mysql_pool_cli = None
    /\ connection = None
    /\ cursor = None
    /\ \A t \in Tasks : pc[t] = "idle"

\* C17 as it is stated: a config that was constructed has its connection
\* parameters, a key type of LIST or HASH where it has one, and an encoding
\* that is not empty where it has one; a constructor that failed left nothing.
C17_AsStated ==
    /\ init_result = "ok" =>
        /\ ConnectionParamsPresent
        /\ sink = "redis" => cfg.key_type \in {"LIST", "HASH"}
        /\ sink \in {"redis", "mysql"} => cfg.encoding # ""
    /\ init_result = "ValueError" => NothingBuilt

\* C17, amended: the key type and the encoding are checked for the key-value
\* config only; a relational config is constructed whatever its encoding.
C17_FailsFast ==
    /\ init_result = "ok" =>
        /\ ConnectionParamsPresent
        /\ sink = "redis" => cfg.key_type \in {"LIST", "HASH"} /\ cfg.encoding # ""
    /\ init_result = "ValueError" => NothingBuilt
    /\ init_result = "none" => NothingBuilt

\* A constructor raised ValueError.
C17_Witness ==
    /\ init_result = "ValueError"
    /\ NothingBuilt

(***************************************************************************)
(* Properties of the key-value pool (SpecPool).                            *)
(***************************************************************************)
\* The pools created so far.
CreatedPools == {p \in PoolIds : pools[p] # "none"}

\* C18: every key-value pool is created without an encoding argument if and
\* only if compress is set, with the configured encoding otherwise, and in
\* both cases with the config's db, password and timeout, minsize 1 and
\* maxsize 3 and no other argument.
C18_EncodingIffNotCompress ==
    sink = "redis" =>
        \A p \in CreatedPools :
            LET kw == pool_kwargs[p] IN
            /\ "encoding" \notin DOMAIN kw <=> cfg.compress
            /\ ~cfg.compress => kw["encoding"] = S(cfg.encoding)
            /\ DOMAIN kw \ {"encoding"} = {"db", "password", "timeout", "minsize", "maxsize"}
            /\ kw["db"] = cfg.db
            /\ kw["password"] = cfg.password
            /\ kw["timeout"] = cfg.timeout
            /\ kw["minsize"] = I(1)
            /\ kw["maxsize"] = I(3)

\* A pool was created for a config with compress set: no encoding was passed.
C18_Witness ==
    /\ sink = "redis"
    /\ cfg.compress
    /\ redis_pool_cli # None
    /\ "encoding" \notin DOMAIN pool_kwargs[redis_pool_cli]

\* The name of the write operation the configuration calls for.
WriteOpName ==
    IF cfg.key_type = "LIST"
    THEN IF cfg.direction = "L" THEN "lpush" ELSE "rpush"
    ELSE "hset"

\* C19: the write method is unset exactly when the pool field is; when set it
\* is the method of the pool now cached: lpush for LIST with direction L,
\* rpush for LIST with any other direction, hset for HASH.
C19_WriteMethodOfPool ==
    sink = "redis" =>
        /\ redis_write_method = NoMethod <=> redis_pool_cli = None
        /\ redis_pool_cli # None =>
            /\ redis_write_method.self = redis_pool_cli
            /\ redis_write_method.name = WriteOpName

\* Two tasks each created a pool; the method is rpush of the pool stored
\* last, the direction being neither L nor R.
C19_Witness ==
    /\ sink = "redis"
    /\ cfg.key_type = "LIST"
    /\ cfg.direction = "X"
    /\ Constructed = 2
    /\ redis_pool_cli = 2
    /\ redis_write_method = Method(2, "rpush")

(***************************************************************************)
(* Delay between the attempts of a write (SpecBulk).                       *)
(***************************************************************************)
\* C20: when a bulk write has made k attempts, k - 1 delays have been waited
\* between them (none after the last), each between random_min_sleep and
\* random_max_sleep, and equal to both when the two are equal.
C20_DelayBetweenAttempts ==
    (caller = "bulk" /\ nAttempts >= 1) =>
        /\ Len(sleeps) >= nAttempts - 1
        /\ phase = "done" => Len(sleeps) = nAttempts - 1
        /\ \A i \in 1..Len(sleeps) :
            /\ random_min_sleep <= sleeps[i]
            /\ sleeps[i] <= random_max_sleep

(***************************************************************************)
(* The request perform_request hands to main_loop (SpecTransport).         *)
(***************************************************************************)
\* A body as it goes on the wire: serialised and encoded; None stays None.
Wire(body) == IF body = NoneV THEN NoneV ELSE Encode(SerializerDumps(body))

\* The query parameters of a call: those given, less the client-side option
\* 'ignore', which becomes an argument of main_loop.
QueryOf(params) ==
    IF params = NoneV THEN NoneV
    ELSE IF Len(params.d) = 0 THEN params
    ELSE Params(Del(params.d, "ignore"))

\* A request is in main_loop, or has been, that client code made directly.
DirectCall == caller = "direct" /\ phase \in {"loop", "done"}

\* C21: a GET or HEAD request with a body goes out, under strategy POST, as a
\* POST with that body; under strategy source, with its own method, no body
\* and the serialised body as query parameter 'source' beside its other
\* parameters; under strategy GET as it was given.  A request without a body
\* or with another method goes out with the method, the query parameters and
\* the body it was given.
C21_GetBodyStrategy ==
    DirectCall =>
        LET withBody == given.method \in {"GET", "HEAD"} /\ given.body # NoneV IN
        IF withBody /\ send_get_body_as = "POST"
        THEN /\ req.method = "POST"
             /\ req.body = Wire(given.body)
             /\ req.params = QueryOf(given.params)
        ELSE IF withBody /\ send_get_body_as = "source"
        THEN /\ req.method = given.method
             /\ req.body = NoneV
             /\ req.params # NoneV
             /\ Has(req.params.d, "source")
             /\ Get(req.params.d, "source") = SerializerDumps(given.body)
             /\ Del(req.params.d, "source") =
                    IF given.params = NoneV THEN <<>> ELSE Del(given.params.d, "ignore")
        ELSE /\ req.method = given.method
             /\ req.body = Wire(given.body)
             /\ req.params = QueryOf(given.params)

\* A GET with a body and parameters was sent under strategy source.
C21_Witness ==
    /\ DirectCall
    /\ send_get_body_as = "source"
    /\ given.method = "GET"
    /\ given.body # NoneV
    /\ given.params # NoneV
    /\ Has(given.params.d, "size")
    /\ req.body = NoneV
    /\ Has(req.params.d, "source")
    /\ Has(req.params.d, "size")

(***************************************************************************)
(* free_resource against a suspended get_mysql_pool_cli (SpecPool).        *)
(***************************************************************************)
\* C22: every connection free_resource released to a pool was acquired from
\* that pool (it is never None), and the config never holds a connection or
\* a cursor while its pool field is None.
C22_FreeAndGetInterleave ==
    /\ \A i \in 1..Len(ops) :
        ops[i].op = "release" => ops[i].conn # None /\ ops[i].conn = ops[i].pool
    /\ mysql_pool_cli = None => connection = None /\ cursor = None

(***************************************************************************)
(* A bulk write whose body cannot be built (SpecBulk).                     *)
(***************************************************************************)
\* Building the lines of record i raises: its identifier function does, or
\* json.dumps of its identifier or of the record.
RaisesAt(i) ==
    LET h == IdHash(id_hash_func, StampedInput(i), now)
    IN  h.raised \/ h.id.t = "obj" \/ ~Serializable(h.item)

FirstRaising == CHOOSE i \in 1..Len(items0) :
                    RaisesAt(i) /\ \A j \in 1..(i - 1) : ~RaisesAt(j)

\* Record i carries the stamps of the call.
Stamped(i) ==
    /\ Truthy(app_code) => Has(items[i], "appCode") /\ Get(items[i], "appCode") = app_code
    /\ Truthy(create_date) =>
            Has(items[i], "createDate") /\ Get(items[i], "createDate") = create_date
    /\ id_hash_func = "default" => Has(items[i], "createDate")

\* C23: when building the lines of some record raises, the call ends with
\* that exception (not with a returned sentinel), no request is handed to the
\* transport and no attempt is made; the records before the one that raised
\* keep their stamps and the records after it are untouched.  A call whose
\* records all build does not end this way.
C23_BuildFailurePropagates ==
    (caller = "bulk" /\ phase \in {"loop", "done"}) =>
        IF \E i \in 1..Len(items0) : RaisesAt(i)
        THEN /\ phase = "done"
             /\ bres.kind = "raise"
             /\ req = NoReq
             /\ given = NoGiven
             /\ nAttempts = 0
             /\ \A i \in 1..(FirstRaising - 1) : Stamped(i) /\ SameRecord(i)
             /\ \A i \in (FirstRaising + 1)..Len(items0) : items[i] = items0[i]
        ELSE bres.kind # "raise"

\* The second record of a batch raised after the first had been stamped.
C23_Witness ==
    /\ caller = "bulk"
    /\ phase = "done"
    /\ bres.kind = "raise"
    /\ Len(items0) = 2
    /\ ~RaisesAt(1)
    /\ RaisesAt(2)
    /\ Truthy(app_code)
    /\ items[1] # items0[1]
    /\ Get(items[1], "appCode") = app_code

====
